---- MODULE Spec2Model ----
(***************************************************************************)
(* virtio-cryptodev: the guest character-device driver                     *)
(* (guest/crypto-chrdev.c) and the QEMU backend                            *)
(* (backend/hw/char/virtio-cryptodev.c), joined by one virtqueue per       *)
(* device.  Guest threads call open / release / ioctl; every call builds   *)
(* a scatter-gather list, takes the device spinlock, adds the list to the  *)
(* queue, kicks, busy-polls for the used buffer and unlocks.  The backend  *)
(* callback vq_handle_output pops one element, runs the real /dev/crypto   *)
(* call it names, pushes the element back and notifies.                    *)
(***************************************************************************)
EXTENDS Integers, Sequences, FiniteSets, TLC

\* ------------------------------------------------------------------ bounds
MaxCalls == 3      \* guest system calls started in one behaviour
MaxFd    == 2      \* size of the host's descriptor table for /dev/crypto
MaxSes   == 1      \* session identifiers are 0..MaxSes
MaxByte  == 1      \* a data byte is 0..MaxByte

\* --------------------------------------------------------- program constants
QueueSize == 128   \* virtio_add_queue(vdev, 128, vq_handle_output)
ENODEV    == 19    \* open returns -ENODEV
ENOMEM    == 12    \* open returns -ENOMEM
OpenSgsLen  == 2   \* struct scatterlist *sgs[2] of open and release
IoctlSgsLen == 9   \* struct scatterlist *sgs[9] of ioctl

Threads    == {"t1", "t2"}        \* guest threads
Files      == {"f1", "f2"}        \* struct file objects (filp)
Minors     == {0, 1}              \* minor numbers a caller may pass to open
Registered == {0}                  \* minors found in crdrvdata.devs
NoThread   == "-"

KeyLens == {0, 1}                 \* declared key lengths (session_op.keylen)
Cmds    == {"CIOCGSESSION", "CIOCFSESSION", "CIOCCRYPT", "OTHER"}
Bytes   == 0..MaxByte
SesIds  == 0..MaxSes
HostFds == 0..(MaxFd - 1)

\* A region is named by the buffer it covers: kind is the C object, of its
\* owner (the calling thread for per-call buffers, the file for the Context).
Region(k, o) == [kind |-> k, of |-> o]

VARIABLES
  pc,        \* [Threads -> position inside the current call]
  call,      \* [Threads -> the call being executed and its arguments]
  ret,       \* [Threads -> the call's return value (ret)]
  umem,      \* [Threads -> the caller's user-space argument memory]
  sgs,       \* [Threads -> [out, in]: sgs[] with num_out / num_in]
  fstate,    \* [Files -> "closed" | "opening" | "open" | "releasing"]
  crof,      \* [Files -> struct crypto_open_file: alloc, crdev, host_fd]
  leaked,    \* [crof |-> n, buf |-> n]: kzalloc'ed objects never kfree'd
  devlock,   \* [Registered -> holder of crdev->lock or NoThread]
  avail,     \* [Registered -> descriptor sets added and not yet popped]
  used,      \* [Registered -> descriptor sets pushed and not yet got]
  irq,       \* [Registered -> virtio_notify has raised the device's interrupt]
  host_fds,  \* the host's open /dev/crypto descriptors
  sessions,  \* the real device's sessions: <<fd, ses>>
  hostUp,    \* FALSE once the backend faulted on a wild pointer
  hist,      \* [Threads -> what happened to the request of the current call]
  prev,      \* [Threads -> summary of the thread's previous completed call]
  ncalls,    \* calls started so far
  rich       \* whether callers vary the data bytes and session ids they pass

vars == <<pc, call, ret, umem, sgs, fstate, crof, leaked, devlock, avail, used,
          irq, host_fds, sessions, hostUp, hist, prev, ncalls, rich>>

\* ------------------------------------------------------------ guest state
NoCall  == [kind |-> "none", f |-> "-", cmd |-> "-", orig |-> -1]
NoCrof  == [alloc |-> FALSE, crdev |-> -1, host_fd |-> -1]
NoSgs   == [out |-> <<>>, in |-> <<>>]
NoPrev  == [f |-> "-", ses |-> 0, iv |-> 0, src |-> -1, dst |-> -1, fd |-> -1,
            fds |-> {}]
ZeroArg == [ses |-> 0, keylen |-> 0, key |-> <<>>, op |-> "-", src |-> 0, dst |-> 0,
            iv |-> 0, fault |-> "none"]
NoReal  == [name |-> "none", fd |-> -1, arg |-> Region("-", "-"), key |-> Region("-", "-"),
            keylen |-> 0, sesval |-> -1, len |-> 0, res |-> 0, newses |-> -1]
NoHist  == [added |-> 0, popped |-> 0, pushed |-> 0, notified |-> 0, sys |-> "-",
            cmd |-> "-", acc |-> {}, real |-> NoReal]

\* The user-space argument memory a caller may hand to ioctl(cmd, arg).
UserBytes == IF rich THEN Bytes ELSE {0}
UserSes   == IF rich THEN SesIds ELSE {0}
KeysOf(n) == IF n = 0 THEN {<<>>} ELSE [1..n -> UserBytes]
UserArgs(cmd) ==
  CASE cmd = "CIOCGSESSION" ->
         UNION { { [ZeroArg EXCEPT !.keylen = n, !.key = k, !.fault = fl] :
                     k \in KeysOf(n),
                     fl \in IF n = 0 THEN {"none", "sess"} ELSE {"none", "sess", "key"} } :
                 n \in KeyLens }
    [] cmd = "CIOCFSESSION" ->
         { [ZeroArg EXCEPT !.ses = s] : s \in UserSes }
    [] cmd = "CIOCCRYPT" ->
         { [ZeroArg EXCEPT !.op = o, !.ses = s, !.src = a, !.dst = b] :
             o \in {"ENCRYPT", "DECRYPT"}, s \in UserSes, a \in UserBytes,
             b \in UserBytes }
    [] OTHER -> {ZeroArg}

InitGuestHost ==
  /\ pc = [t \in Threads |-> "idle"]
  /\ call = [t \in Threads |-> NoCall]
  /\ ret = [t \in Threads |-> 0]
  /\ umem = [t \in Threads |-> ZeroArg]
  /\ sgs = [t \in Threads |-> NoSgs]
  /\ fstate = [f \in Files |-> "closed"]
  /\ crof = [f \in Files |-> NoCrof]
  /\ leaked = [crof |-> 0, buf |-> 0]
  /\ devlock = [d \in Registered |-> NoThread]
  /\ avail = [d \in Registered |-> <<>>]
  /\ used = [d \in Registered |-> <<>>]
  /\ irq = [d \in Registered |-> FALSE]
  /\ host_fds = {}
  /\ sessions = {}
  /\ hostUp = TRUE
  /\ hist = [t \in Threads |-> NoHist]
  /\ prev = [t \in Threads |-> NoPrev]
  /\ ncalls = 0

\* Callers that pass one fixed data byte and session id: the driver never
\* looks at either.
Init == InitGuestHost /\ rich = FALSE

\* Callers that draw data bytes from Bytes and session ids from SesIds.
InitData == InitGuestHost /\ rich = TRUE

\* get_crypto_dev_by_minor: the device of crdrvdata.devs with that minor,
\* or -1 for NULL.
get_crypto_dev_by_minor(minor) == IF minor \in Registered THEN minor ELSE -1

\* The device a thread's current call works on (crof->crdev).
DevOf(t) == crof[call[t].f].crdev

Busy(f) == \E t \in Threads : pc[t] # "idle" /\ call[t].f = f

\* The local array sgs[n] with its counters num_out and num_in.  A slot holds
\* the region stored in it, the counter expression that indexed the store and
\* how many stores hit it.
Unset == [r |-> Region("unset", "-"), dir |-> "-", n |-> 0]
EmptySgs(n) == [arr |-> [i \in 1..n |-> Unset], num_out |-> 0, num_in |-> 0]

\* sgs[num_out++] = &r_sg;  and  sgs[num_out + num_in++] = &r_sg;
SgPut(b, dir, r) ==
  LET idx == IF dir = "out" THEN b.num_out ELSE b.num_out + b.num_in
      arr == IF idx + 1 \in DOMAIN b.arr
             THEN [b.arr EXCEPT ![idx + 1] = [r |-> r, dir |-> dir, n |-> @.n + 1]]
             ELSE b.arr
  IN  [arr     |-> arr,
       num_out |-> IF dir = "out" THEN b.num_out + 1 ELSE b.num_out,
       num_in  |-> IF dir = "in" THEN b.num_in + 1 ELSE b.num_in]

\* The stores of a call, in program order, applied to an empty array.
RECURSIVE Build(_, _)
Build(ops, n) ==
  IF ops = <<>> THEN EmptySgs(n)
  ELSE SgPut(Build(SubSeq(ops, 1, Len(ops) - 1), n), ops[Len(ops)][1], ops[Len(ops)][2])

\* virtqueue_add_sgs(vq, sgs, num_out, num_in, ...): the first num_out slots
\* are the guest-writable regions, the next num_in the host-writable ones.
AddSgs(b) ==
  [out |-> [i \in 1..b.num_out |-> b.arr[i].r],
   in  |-> [i \in 1..b.num_in |-> b.arr[b.num_out + i].r]]

\* The stores into sgs of crypto_chrdev_open and crypto_chrdev_release.
OpenOps(t, f) == <<(<<"out", Region("syscall_type", t)>>), (<<"in", Region("host_fd", f)>>)>>
ReleaseOps(t, f) == <<(<<"out", Region("syscall_type", t)>>), (<<"out", Region("host_fd", f)>>)>>

\* crypto_chrdev_open up to the spin_lock: allocate the request buffer, look
\* the device up, allocate and initialise the Context, build sgs.
OpenEnter(t, f, minor) ==
  /\ pc[t] = "idle" /\ ncalls < MaxCalls /\ fstate[f] = "closed"
  /\ ncalls' = ncalls + 1
  /\ call' = [call EXCEPT ![t] = [NoCall EXCEPT !.kind = "open", !.f = f]]
  /\ prev' = [prev EXCEPT ![t] = NoPrev]
  /\ fstate' = [fstate EXCEPT ![f] = "opening"]
  /\ hist' = [hist EXCEPT ![t] = NoHist]
  /\ umem' = [umem EXCEPT ![t] = ZeroArg]
  /\ \/ /\ get_crypto_dev_by_minor(minor) = -1          \* goto fail
        /\ ret' = [ret EXCEPT ![t] = -ENODEV]
        /\ pc' = [pc EXCEPT ![t] = "done"]
        /\ UNCHANGED <<crof, sgs>>
     \/ /\ get_crypto_dev_by_minor(minor) # -1          \* kzalloc(crof) fails
        /\ ret' = [ret EXCEPT ![t] = -ENOMEM]
        /\ pc' = [pc EXCEPT ![t] = "done"]
        /\ UNCHANGED <<crof, sgs>>
     \/ /\ get_crypto_dev_by_minor(minor) # -1
        /\ ret' = [ret EXCEPT ![t] = 0]                 \* nonseekable_open
        /\ crof' = [crof EXCEPT ![f] = [alloc |-> TRUE,
                                        crdev |-> get_crypto_dev_by_minor(minor),
                                        host_fd |-> -1]]
        /\ sgs' = [sgs EXCEPT ![t] = AddSgs(Build(OpenOps(t, f), OpenSgsLen))]
        /\ pc' = [pc EXCEPT ![t] = "lock"]
  /\ UNCHANGED <<leaked, devlock, avail, used, irq, host_fds, sessions, hostUp, rich>>

\* crypto_chrdev_release up to the spin_lock.  The kernel calls release when
\* the last reference to the file is dropped, so no other call uses it.
ReleaseEnter(t, f) ==
  /\ pc[t] = "idle" /\ ncalls < MaxCalls /\ fstate[f] = "open" /\ ~Busy(f)
  /\ ncalls' = ncalls + 1
  /\ call' = [call EXCEPT ![t] = [NoCall EXCEPT !.kind = "release", !.f = f]]
  /\ prev' = [prev EXCEPT ![t] = IF @.fd >= 0 /\ @.f = f THEN @ ELSE NoPrev]
  /\ fstate' = [fstate EXCEPT ![f] = "releasing"]
  /\ hist' = [hist EXCEPT ![t] = NoHist]
  /\ umem' = [umem EXCEPT ![t] = ZeroArg]
  /\ ret' = [ret EXCEPT ![t] = 0]
  /\ sgs' = [sgs EXCEPT ![t] = AddSgs(Build(ReleaseOps(t, f), OpenSgsLen))]
  /\ pc' = [pc EXCEPT ![t] = "lock"]
  /\ UNCHANGED <<crof, leaked, devlock, avail, used, irq, host_fds, sessions,
                 hostUp, rich>>

\* IoctlOps whose default case places the two diagnostic messages like the
\* other cases do.
IoctlOpsDefaultMsg(t, f, cmd, arg) ==
  LET common == <<(<<"out", Region("syscall_type", t)>>), (<<"out", Region("host_fd", f)>>),
                  (<<"out", Region("cmd", t)>>)>>
      msg    == common \o <<(<<"out", Region("output_msg", t)>>),
                             (<<"in", Region("input_msg", t)>>)>>
  IN  CASE cmd = "CIOCGSESSION" ->
             IF arg.fault = "sess" \/ (arg.fault = "key" /\ arg.keylen > 0)
             THEN msg
             ELSE Append(msg, <<"in", Region("copied_session", t)>>)
        [] OTHER -> msg

\* IoctlOps with the stores of lines 322-329 in the CIOCCRYPT case.
IoctlOpsPayload(t, f, cmd, arg) ==
  LET common == <<(<<"out", Region("syscall_type", t)>>), (<<"out", Region("host_fd", f)>>),
                  (<<"out", Region("cmd", t)>>)>>
      msg    == common \o <<(<<"out", Region("output_msg", t)>>),
                             (<<"in", Region("input_msg", t)>>)>>
  IN  CASE cmd = "CIOCGSESSION" ->
             IF arg.fault = "sess" \/ (arg.fault = "key" /\ arg.keylen > 0)
             THEN msg
             ELSE Append(msg, <<"in", Region("copied_session", t)>>)
        [] cmd = "CIOCFSESSION" -> msg
        [] cmd = "CIOCCRYPT"    ->
             msg \o <<(<<"out", Region("copied_crypt", t)>>), (<<"out", Region("crypto_src", t)>>),
                      (<<"in", Region("crypto_dst", t)>>), (<<"out", Region("crypto_iv", t)>>)>>
        [] OTHER -> common

\* The stores into sgs crypto_chrdev_ioctl has made when it leaves the
\* switch (cmd), or when a copy_from_user failure jumps to fail.
IoctlOps(t, f, cmd, arg) ==
  LET common == <<(<<"out", Region("syscall_type", t)>>), (<<"out", Region("host_fd", f)>>),
                  (<<"out", Region("cmd", t)>>)>>
      msg    == common \o <<(<<"out", Region("output_msg", t)>>),
                             (<<"in", Region("input_msg", t)>>)>>
  IN  CASE cmd = "CIOCGSESSION" ->
             IF arg.fault = "sess" \/ (arg.fault = "key" /\ arg.keylen > 0)
             THEN msg
             ELSE Append(msg, <<"in", Region("copied_session", t)>>)
        [] cmd = "CIOCFSESSION" -> msg
        [] cmd = "CIOCCRYPT"    -> msg
        [] OTHER -> common

\* The scatter-gather list the call hands to virtqueue_add_sgs.
IoctlSgs(t, f, cmd, arg) == AddSgs(Build(IoctlOps(t, f, cmd, arg), IoctlSgsLen))

\* The caller's bookkeeping for a round trip: when this call decrypts, on the
\* same file with the same session and IV, the destination buffer that the
\* thread's previous call (an encryption) returned, the plaintext of that
\* encryption; otherwise -1.
RoundTrip(pr, f, cmd, arg) ==
  IF cmd = "CIOCCRYPT" /\ arg.op = "DECRYPT" /\ pr.f = f /\ pr.ses = arg.ses
     /\ pr.iv = arg.iv /\ pr.dst = arg.src
  THEN pr.src ELSE -1

\* IoctlEnter whose copy_from_user failures do not leave the function: the
\* call goes on to the submission with the failure count in ret.
IoctlEnterNoAbort(t, f, cmd, arg) ==
  /\ pc[t] = "idle" /\ ncalls < MaxCalls /\ fstate[f] = "open"
  /\ ncalls' = ncalls + 1
  /\ call' = [call EXCEPT ![t] = [kind |-> "ioctl", f |-> f, cmd |-> cmd,
                                orig |-> RoundTrip(prev[t], f, cmd, arg)]]
  /\ prev' = [prev EXCEPT ![t] = NoPrev]
  /\ hist' = [hist EXCEPT ![t] = NoHist]
  /\ umem' = [umem EXCEPT ![t] = arg]
  /\ sgs' = [sgs EXCEPT ![t] = IoctlSgs(t, f, cmd, arg)]
  /\ \/ /\ cmd = "CIOCGSESSION" /\ arg.fault = "sess"
        /\ \E n \in 1..2 : ret' = [ret EXCEPT ![t] = n]
     \/ /\ cmd = "CIOCGSESSION" /\ arg.fault = "key" /\ arg.keylen > 0
        /\ \E n \in 1..arg.keylen : ret' = [ret EXCEPT ![t] = n]
     \/ /\ ~(cmd = "CIOCGSESSION" /\ arg.fault = "sess")
        /\ ~(cmd = "CIOCGSESSION" /\ arg.fault = "key" /\ arg.keylen > 0)
        /\ ret' = [ret EXCEPT ![t] = 0]
  /\ pc' = [pc EXCEPT ![t] = "lock"]
  /\ UNCHANGED <<fstate, crof, leaked, devlock, avail, used, irq, host_fds,
                 sessions, hostUp, rich>>

\* crypto_chrdev_ioctl up to the spin_lock.  copy_from_user returns the
\* number of bytes it could not copy.
IoctlEnter(t, f, cmd, arg) ==
  /\ pc[t] = "idle" /\ ncalls < MaxCalls /\ fstate[f] = "open"
  /\ ncalls' = ncalls + 1
  /\ call' = [call EXCEPT ![t] = [kind |-> "ioctl", f |-> f, cmd |-> cmd,
                                orig |-> RoundTrip(prev[t], f, cmd, arg)]]
  /\ prev' = [prev EXCEPT ![t] = NoPrev]
  /\ hist' = [hist EXCEPT ![t] = NoHist]
  /\ umem' = [umem EXCEPT ![t] = arg]
  /\ sgs' = [sgs EXCEPT ![t] = IoctlSgs(t, f, cmd, arg)]
  /\ \/ /\ cmd = "CIOCGSESSION" /\ arg.fault = "sess"
        /\ \E n \in 1..2 : ret' = [ret EXCEPT ![t] = n]
        /\ pc' = [pc EXCEPT ![t] = "exit"]
     \/ /\ cmd = "CIOCGSESSION" /\ arg.fault = "key" /\ arg.keylen > 0
        /\ \E n \in 1..arg.keylen : ret' = [ret EXCEPT ![t] = n]
        /\ pc' = [pc EXCEPT ![t] = "exit"]
     \/ /\ ~(cmd = "CIOCGSESSION" /\ arg.fault = "sess")
        /\ ~(cmd = "CIOCGSESSION" /\ arg.fault = "key" /\ arg.keylen > 0)
        /\ ret' = [ret EXCEPT ![t] = 0]
        /\ pc' = [pc EXCEPT ![t] = "lock"]
  /\ UNCHANGED <<fstate, crof, leaked, devlock, avail, used, irq, host_fds,
                 sessions, hostUp, rich>>

\* Lock without the wait for the holder to leave.
LockNoWait(t) ==
  /\ pc[t] = "lock"
  /\ devlock' = [devlock EXCEPT ![DevOf(t)] = t]
  /\ pc' = [pc EXCEPT ![t] = "add"]
  /\ UNCHANGED <<call, ret, umem, sgs, fstate, crof, leaked, avail, used, irq,
                 host_fds, sessions, hostUp, hist, prev, ncalls, rich>>

\* spin_lock_irqsave(&crdev->lock, flags)
Lock(t) ==
  /\ pc[t] = "lock" /\ devlock[DevOf(t)] = NoThread
  /\ devlock' = [devlock EXCEPT ![DevOf(t)] = t]
  /\ pc' = [pc EXCEPT ![t] = "add"]
  /\ UNCHANGED <<call, ret, umem, sgs, fstate, crof, leaked, avail, used, irq,
                 host_fds, sessions, hostUp, hist, prev, ncalls, rich>>

\* virtqueue_add_sgs + virtqueue_kick; err is ignored by the caller.
AddKick(t) ==
  /\ pc[t] = "add"
  /\ IF Len(avail[DevOf(t)]) + Len(used[DevOf(t)]) < QueueSize
     THEN /\ avail' = [avail EXCEPT ![DevOf(t)] =
                         Append(@, [owner |-> t, out |-> sgs[t].out, in |-> sgs[t].in])]
          /\ hist' = [hist EXCEPT ![t].added = @ + 1]
     ELSE UNCHANGED <<avail, hist>>
  /\ pc' = [pc EXCEPT ![t] = "poll"]
  /\ UNCHANGED <<call, ret, umem, sgs, fstate, crof, leaked, devlock, used, irq,
                 host_fds, sessions, hostUp, prev, ncalls, rich>>

\* Poll that gives the wait up: it leaves the loop with no buffer returned.
PollGiveUp(t) ==
  /\ pc[t] = "poll"
  /\ used' = [used EXCEPT ![DevOf(t)] = IF @ = <<>> THEN @ ELSE Tail(@)]
  /\ pc' = [pc EXCEPT ![t] = "unlock"]
  /\ UNCHANGED <<call, ret, umem, sgs, fstate, crof, leaked, devlock, avail, irq,
                 host_fds, sessions, hostUp, hist, prev, ncalls, rich>>

\* while (virtqueue_get_buf(vq, &len) == NULL);  one successful iteration.
Poll(t) ==
  /\ pc[t] = "poll" /\ used[DevOf(t)] # <<>>
  /\ used' = [used EXCEPT ![DevOf(t)] = Tail(@)]
  /\ pc' = [pc EXCEPT ![t] = "unlock"]
  /\ UNCHANGED <<call, ret, umem, sgs, fstate, crof, leaked, devlock, avail, irq,
                 host_fds, sessions, hostUp, hist, prev, ncalls, rich>>

\* spin_unlock_irqrestore(&crdev->lock, flags)
Unlock(t) ==
  /\ pc[t] = "unlock"
  /\ devlock' = [devlock EXCEPT ![DevOf(t)] = NoThread]
  /\ pc' = [pc EXCEPT ![t] = "exit"]
  /\ UNCHANGED <<call, ret, umem, sgs, fstate, crof, leaked, avail, used, irq,
                 host_fds, sessions, hostUp, hist, prev, ncalls, rich>>

\* The tail of crypto_chrdev_open: a negative host_fd returns -ENODEV at
\* once, leaving crof and syscall_type allocated; otherwise kfree(syscall_type).
OpenExit(t) ==
  /\ pc[t] = "exit" /\ call[t].kind = "open"
  /\ IF crof[call[t].f].host_fd < 0
     THEN /\ ret' = [ret EXCEPT ![t] = -ENODEV]
          /\ leaked' = [crof |-> leaked.crof + 1, buf |-> leaked.buf + 1]
          /\ crof' = [crof EXCEPT ![call[t].f] = NoCrof]
     ELSE UNCHANGED <<ret, leaked, crof>>
  /\ pc' = [pc EXCEPT ![t] = "done"]
  /\ UNCHANGED <<call, umem, sgs, fstate, devlock, avail, used, irq, host_fds,
                 sessions, hostUp, hist, prev, ncalls, rich>>

\* ReleaseExit without the kfree(crof).
ReleaseExitKeep(t) ==
  /\ pc[t] = "exit" /\ call[t].kind = "release"
  /\ pc' = [pc EXCEPT ![t] = "done"]
  /\ UNCHANGED <<call, ret, umem, sgs, fstate, crof, leaked, devlock, avail, used,
                 irq, host_fds, sessions, hostUp, hist, prev, ncalls, rich>>

\* The tail of crypto_chrdev_release: kfree(syscall_type); kfree(crof).
ReleaseExit(t) ==
  /\ pc[t] = "exit" /\ call[t].kind = "release"
  /\ crof' = [crof EXCEPT ![call[t].f] = NoCrof]
  /\ pc' = [pc EXCEPT ![t] = "done"]
  /\ UNCHANGED <<call, ret, umem, sgs, fstate, leaked, devlock, avail, used, irq,
                 host_fds, sessions, hostUp, hist, prev, ncalls, rich>>

\* IoctlExit that returns the status of the host's real-device call.
IoctlExitStatus(t) ==
  /\ pc[t] = "exit" /\ call[t].kind = "ioctl"
  /\ ret' = [ret EXCEPT ![t] = IF hist[t].real.name = "none" THEN @ ELSE hist[t].real.res]
  /\ pc' = [pc EXCEPT ![t] = "done"]
  /\ UNCHANGED <<call, umem, sgs, fstate, crof, leaked, devlock, avail, used,
                 irq, host_fds, sessions, hostUp, hist, prev, ncalls, rich>>

\* The fail: label of crypto_chrdev_ioctl: free the per-call buffers and
\* return ret.  Nothing is copied back to the caller.
IoctlExit(t) ==
  /\ pc[t] = "exit" /\ call[t].kind = "ioctl"
  /\ pc' = [pc EXCEPT ![t] = "done"]
  /\ UNCHANGED <<call, ret, umem, sgs, fstate, crof, leaked, devlock, avail, used,
                 irq, host_fds, sessions, hostUp, hist, prev, ncalls, rich>>

\* The system call returns to user space.
Return(t) ==
  /\ pc[t] = "done"
  /\ pc' = [pc EXCEPT ![t] = "idle"]
  /\ fstate' = [fstate EXCEPT ![call[t].f] =
                  CASE call[t].kind = "open" -> IF ret[t] = 0 THEN "open" ELSE "closed"
                    [] call[t].kind = "release" -> "closed"
                    [] OTHER -> @]
  /\ prev' = [prev EXCEPT ![t] =
                IF call[t].cmd = "CIOCCRYPT" /\ umem[t].op = "ENCRYPT" /\ ret[t] = 0
                THEN [NoPrev EXCEPT !.f = call[t].f, !.ses = umem[t].ses,
                                     !.iv = umem[t].iv, !.src = umem[t].src,
                                     !.dst = umem[t].dst]
                ELSE IF call[t].kind = "open" /\ ret[t] = 0 THEN @ ELSE NoPrev]
  /\ call' = [call EXCEPT ![t] = NoCall]
  /\ sgs' = [sgs EXCEPT ![t] = NoSgs]
  /\ ret' = [ret EXCEPT ![t] = 0]
  /\ umem' = [umem EXCEPT ![t] = ZeroArg]
  /\ hist' = [hist EXCEPT ![t] = NoHist]
  /\ UNCHANGED <<crof, leaked, devlock, avail, used, irq, host_fds, sessions,
                 hostUp, ncalls, rich>>

\* ------------------------------------------------------------- host side
\* elem->out_sg[i] / elem->in_sg[i].  The arrays hold out_num / in_num
\* entries; an index past the end reads memory that is not an entry of the
\* array, so the pointer it yields is p, any of OobPtrs.
Sg(list, i, p) == IF i < Len(list) THEN list[i + 1] ELSE p

\* What a pointer read past the end of the array may be: an unmapped address
\* (a store through it faults), mapped memory that is no region of the
\* request, or the address of one of the request's own regions.
OobPtrs(elem) ==
  {Region("fault", "-"), Region("stray", "-")}
    \cup {elem.out[i] : i \in 1..Len(elem.out)}
    \cup {elem.in[i] : i \in 1..Len(elem.in)}

\* *syscall_type, *host_fd, *cmd as the backend reads them from a region.
SyscallAt(r) ==
  IF r.kind = "syscall_type"
  THEN CASE call[r.of].kind = "open"    -> "OPEN"
         [] call[r.of].kind = "release" -> "CLOSE"
         [] call[r.of].kind = "ioctl"   -> "IOCTL"
         [] OTHER -> "JUNK"
  ELSE "JUNK"
FdAt(r)  == IF r.kind = "host_fd" THEN crof[r.of].host_fd ELSE -1
CmdAt(r) == IF r.kind = "cmd" THEN call[r.of].cmd ELSE "OTHER"

\* A region read as struct session_op, as __u32 and as struct crypt_op.
\* input_msg and output_msg come from kzalloc and hold zero bytes where the
\* structures have their fields.
SessionAt(r) ==
  IF r.kind = "copied_session"
  THEN [keylen |-> umem[r.of].keylen, ses |-> umem[r.of].ses]
  ELSE [keylen |-> 0, ses |-> 0]
U32At(r) == IF r.kind = "copied_sess_ses" THEN umem[r.of].ses ELSE 0
CryptAt(r) ==
  IF r.kind = "copied_crypt"
  THEN [ses |-> umem[r.of].ses, op |-> umem[r.of].op, len |-> 1]
  ELSE [ses |-> 0, op |-> "-", len |-> 0]

\* The real device's cipher: an invertible function of (session, iv, data).
RealCrypt(op, ses, iv, b) ==
  IF op = "ENCRYPT" THEN (b + ses + iv + 1) % (MaxByte + 1)
  ELSE (b + 2 * (MaxByte + 1) * (MaxSes + 1) - ses - iv - 1) % (MaxByte + 1)

\* open("/dev/crypto", O_RDWR): the lowest free descriptor, or -1.
RealOpen(ok) ==
  IF ok /\ HostFds \ host_fds # {}
  THEN CHOOSE fd \in HostFds \ host_fds : \A g \in HostFds \ host_fds : fd <= g
  ELSE -1

\* An int stored through pointer r: only the Context's host_fd outlives the
\* call; the per-call buffers are freed by the caller without being read.
StoreInt(cr, r, v) ==
  IF r.kind = "host_fd" THEN [cr EXCEPT ![r.of].host_fd = v] ELSE cr

Acc(dir, idx, as) == [dir |-> dir, idx |-> idx, as |-> as]

\* HandleOpen that opens the device and does not store the handle.
HandleOpenNoStore(elem, p, ok) ==
  LET fd == RealOpen(ok)
  IN  [crof  |-> crof,
       fds   |-> IF fd >= 0 THEN host_fds \cup {fd} ELSE host_fds,
       ses   |-> sessions,
       fault |-> FALSE,
       acc   |-> {Acc("in", 0, "host_fd")},
       real  |-> [NoReal EXCEPT !.name = "open", !.res = fd],
       cmd   |-> "-"]

\* case VIRTIO_CRYPTODEV_SYSCALL_TYPE_OPEN
HandleOpen(elem, p, ok) ==
  LET host_fd == Sg(elem.in, 0, p)
      fd      == RealOpen(ok)
  IN  [crof  |-> StoreInt(crof, host_fd, fd),
       fds   |-> IF fd >= 0 THEN host_fds \cup {fd} ELSE host_fds,
       ses   |-> sessions,
       fault |-> host_fd.kind = "fault",
       acc   |-> {Acc("in", 0, "host_fd")},
       real  |-> [NoReal EXCEPT !.name = "open", !.res = fd],
       cmd   |-> "-"]

\* HandleClose that reports success without closing the handle.
HandleCloseKeep(elem, p) ==
  LET fd == FdAt(Sg(elem.out, 1, p))
  IN  [crof  |-> crof,
       fds   |-> host_fds,
       ses   |-> sessions,
       fault |-> FALSE,
       acc   |-> {Acc("out", 1, "host_fd")},
       real  |-> [NoReal EXCEPT !.name = "close", !.fd = fd,
                                !.res = IF fd \in host_fds THEN 0 ELSE -1],
       cmd   |-> "-"]

\* case VIRTIO_CRYPTODEV_SYSCALL_TYPE_CLOSE
HandleClose(elem, p) ==
  LET fd == FdAt(Sg(elem.out, 1, p))
  IN  [crof  |-> crof,
       fds   |-> host_fds \ {fd},
       ses   |-> {s \in sessions : s[1] # fd},
       fault |-> FALSE,
       acc   |-> {Acc("out", 1, "host_fd")},
       real  |-> [NoReal EXCEPT !.name = "close", !.fd = fd,
                                !.res = IF fd \in host_fds THEN 0 ELSE -1],
       cmd   |-> "-"]

\* case CIOCGSESSION: ok and id are the real device's choice.
HandleGetSession(elem, fd, p, ok, id) ==
  LET sess == Sg(elem.in, 0, p)
      key  == Sg(elem.in, 1, p)
      host_return_val == Sg(elem.in, 2, p)
      good == fd \in host_fds /\ ok /\ <<fd, id>> \notin sessions
      r    == IF good THEN 0 ELSE -1
  IN  [crof  |-> StoreInt(crof, host_return_val, r),
       fds   |-> host_fds,
       ses   |-> IF good THEN sessions \cup {<<fd, id>>} ELSE sessions,
       fault |-> "fault" \in {sess.kind, host_return_val.kind},
       acc   |-> {Acc("in", 0, "copied_session"), Acc("in", 1, "session_key"),
                  Acc("in", 2, "host_return_val")},
       real  |-> [NoReal EXCEPT !.name = "CIOCGSESSION", !.fd = fd, !.arg = sess,
                                !.key = key, !.keylen = SessionAt(sess).keylen,
                                !.res = r, !.newses = IF good THEN id ELSE -1],
       cmd   |-> "CIOCGSESSION"]

\* case CIOCFSESSION
HandleFreeSession(elem, fd, p) ==
  LET ses  == Sg(elem.in, 0, p)
      host_return_val == Sg(elem.in, 1, p)
      good == <<fd, U32At(ses)>> \in sessions
      r    == IF good THEN 0 ELSE -1
  IN  [crof  |-> StoreInt(crof, host_return_val, r),
       fds   |-> host_fds,
       ses   |-> sessions \ {<<fd, U32At(ses)>>},
       fault |-> host_return_val.kind = "fault",
       acc   |-> {Acc("in", 0, "copied_sess_ses"), Acc("in", 1, "host_return_val")},
       real  |-> [NoReal EXCEPT !.name = "CIOCFSESSION", !.fd = fd, !.arg = ses,
                                !.sesval = U32At(ses), !.res = r],
       cmd   |-> "CIOCFSESSION"]

\* case CIOCCRYPT: the device processes crypt->len bytes from src to dst.
HandleCrypt(elem, fd, p, ok) ==
  LET crypt == Sg(elem.in, 0, p)
      host_return_val == Sg(elem.in, 4, p)
      c    == CryptAt(crypt)
      good == <<fd, c.ses>> \in sessions /\ ok
      r    == IF good THEN 0 ELSE -1
  IN  [crof  |-> StoreInt(crof, host_return_val, r),
       fds   |-> host_fds,
       ses   |-> sessions,
       fault |-> "fault" \in {crypt.kind, host_return_val.kind},
       acc   |-> {Acc("in", 0, "copied_crypt"), Acc("in", 1, "crypto_src"),
                  Acc("in", 2, "crypto_dst"), Acc("in", 3, "crypto_iv"),
                  Acc("in", 4, "host_return_val")},
       real  |-> [NoReal EXCEPT !.name = "CIOCCRYPT", !.fd = fd, !.arg = crypt,
                                !.sesval = c.ses, !.len = c.len, !.res = r],
       cmd   |-> "CIOCCRYPT"]

\* The switch of vq_handle_output: what serving elem does to the host and to
\* guest memory.  p, ok and id resolve the choices the C code leaves open.
Handle(elem, p, ok, id) ==
  LET sys  == SyscallAt(Sg(elem.out, 0, p))
      none == [crof |-> crof, fds |-> host_fds, ses |-> sessions, fault |-> FALSE,
               acc |-> {}, real |-> NoReal, cmd |-> "-"]
      body ==
        CASE sys = "OPEN"  -> HandleOpen(elem, p, ok)
          [] sys = "CLOSE" -> HandleClose(elem, p)
          [] sys = "IOCTL" ->
               LET fd  == FdAt(Sg(elem.out, 1, p))
                   cmd == CmdAt(Sg(elem.out, 2, p))
                   e   == CASE cmd = "CIOCGSESSION" -> HandleGetSession(elem, fd, p, ok, id)
                            [] cmd = "CIOCFSESSION" -> HandleFreeSession(elem, fd, p)
                            [] cmd = "CIOCCRYPT"    -> HandleCrypt(elem, fd, p, ok)
                            [] OTHER -> [none EXCEPT !.cmd = cmd]
               IN  [e EXCEPT !.acc = @ \cup {Acc("out", 1, "host_fd"), Acc("out", 2, "cmd")}]
          [] OTHER -> none
  IN  [body EXCEPT !.acc = @ \cup {Acc("out", 0, "syscall_type")}] @@ [sys |-> sys]

\* NoElem that also pushes an empty element before it notifies.
NoElemPush(d) ==
  /\ irq' = [irq EXCEPT ![d] = TRUE]
  /\ used' = [used EXCEPT ![d] = Append(@, [owner |-> NoThread, out |-> <<>>, in |-> <<>>])]
  /\ UNCHANGED <<avail, crof, host_fds, sessions, hostUp, hist, prev>>

\* if (!elem) { virtio_notify(vdev, vq); return; }
NoElem(d) ==
  /\ irq' = [irq EXCEPT ![d] = TRUE]
  /\ UNCHANGED <<avail, used, crof, host_fds, sessions, hostUp, hist, prev>>

\* The virtqueue callback.  With nothing to pop it notifies and returns;
\* otherwise it serves the element, pushes it and notifies.  A store through
\* an unmapped pointer ends the backend before the push.
vq_handle_output(d) ==
  /\ hostUp
  /\ IF avail[d] = <<>>
     THEN NoElem(d)
     ELSE \E p \in OobPtrs(Head(avail[d])), ok \in BOOLEAN, id \in SesIds :
            LET elem == Head(avail[d])
                e    == Handle(elem, p, ok, id)
                t    == elem.owner
            IN  /\ avail' = [avail EXCEPT ![d] = Tail(@)]
                /\ crof' = e.crof
                /\ host_fds' = e.fds
                /\ sessions' = e.ses
                /\ hostUp' = ~e.fault
                /\ used' = IF e.fault THEN used ELSE [used EXCEPT ![d] = Append(@, elem)]
                /\ irq' = IF e.fault THEN irq ELSE [irq EXCEPT ![d] = TRUE]
                /\ hist' = [hist EXCEPT ![t] =
                              [added    |-> @.added,
                               popped   |-> @.popped + 1,
                               pushed   |-> IF e.fault THEN @.pushed ELSE @.pushed + 1,
                               notified |-> IF e.fault THEN @.notified ELSE @.notified + 1,
                               sys |-> e.sys, cmd |-> e.cmd, acc |-> e.acc,
                               real |-> e.real]]
                /\ prev' = [u \in Threads |->
                              IF u = t /\ e.real.name = "open" /\ e.real.res >= 0
                              THEN [NoPrev EXCEPT !.f = call[t].f, !.fd = e.real.res,
                                                  !.fds = host_fds]
                              ELSE IF u # t /\ prev[u].fd >= 0 THEN NoPrev ELSE prev[u]]
  /\ UNCHANGED <<pc, call, ret, umem, sgs, fstate, leaked, devlock, ncalls, rich>>

\* ------------------------------------------------------------------ claims
\* The descriptor sets of device d the guest has added and not yet got back.
InQueue(d) == {avail[d][i] : i \in 1..Len(avail[d])} \cup {used[d][i] : i \in 1..Len(used[d])}
Elems == UNION {InQueue(d) : d \in Registered}
Submitted(t) == pc[t] = "done" /\ hist[t].added = 1

C2_OneOutstanding ==
  \A d \in Registered :
    /\ Len(avail[d]) + Len(used[d]) <= 1
    /\ Cardinality({t \in Threads : pc[t] = "poll" /\ DevOf(t) = d}) <= 1
    /\ \A e \in InQueue(d) : devlock[d] = e.owner /\ pc[e.owner] = "poll"
    /\ \A t \in Threads :
         pc[t] \in {"add", "poll", "unlock"} /\ DevOf(t) = d => devlock[d] = t

\* One caller waits for its completion while another waits for the lock of
\* the same device, both working on the same file.
C2_Witness ==
  \E t, u \in Threads :
    /\ t # u /\ pc[t] = "poll" /\ pc[u] = "lock"
    /\ call[t].f = call[u].f /\ call[t].kind = "ioctl" /\ call[u].kind = "ioctl"
    /\ avail[DevOf(t)] # <<>>

\* C3: every region the dispatcher reads or writes for a request is a region
\* the guest placed in that request, holding the field the dispatcher takes
\* it for.
C3_SchemaAgreement ==
  \A t \in Threads : \A a \in hist[t].acc :
    LET list == IF a.dir = "out" THEN sgs[t].out ELSE sgs[t].in
    IN  a.idx < Len(list) /\ list[a.idx + 1].kind = a.as

\* C4: an OPEN request carries syscall_type out and the Context's host_fd,
\* still -1, in; a completed open fails exactly when the host's open failed
\* and otherwise leaves the host's handle in the Context.
C4_Open ==
  /\ \A d \in Registered : \A i \in 1..Len(avail[d]) :
       LET e == avail[d][i] IN
         call[e.owner].kind = "open" =>
           /\ e.out = <<Region("syscall_type", e.owner)>>
           /\ e.in = <<Region("host_fd", call[e.owner].f)>>
           /\ crof[call[e.owner].f].host_fd = -1
  /\ \A t \in Threads :
       call[t].kind = "open" =>
         /\ hist[t].added <= 1
         /\ Submitted(t) =>
              /\ hist[t].real.name = "open"
              /\ (ret[t] # 0) <=> (hist[t].real.res < 0)
              /\ ret[t] = 0 =>
                   /\ crof[call[t].f].alloc
                   /\ crof[call[t].f].host_fd = hist[t].real.res

\* An open has completed with a handle from the host.
C4_Witness ==
  \E t \in Threads :
    /\ Submitted(t) /\ call[t].kind = "open" /\ ret[t] = 0
    /\ hist[t].real.res >= 0 /\ crof[call[t].f].host_fd = hist[t].real.res

\* C5: a CLOSE request carries syscall_type and the Context's host_fd out
\* and nothing in; once it completes release frees the Context and returns 0
\* whatever the host's close returned.
C5_Close ==
  /\ \A e \in Elems :
       call[e.owner].kind = "release" =>
         /\ e.out = <<Region("syscall_type", e.owner), Region("host_fd", call[e.owner].f)>>
         /\ e.in = <<>>
  /\ \A t \in Threads :
       call[t].kind = "release" =>
         /\ hist[t].added <= 1
         /\ Submitted(t) =>
              /\ hist[t].real.name = "close"
              /\ ret[t] = 0
              /\ ~crof[call[t].f].alloc

\* A release has completed although the host's close of the handle failed.
C5_Witness ==
  \E t \in Threads :
    /\ Submitted(t) /\ call[t].kind = "release"
    /\ hist[t].real.name = "close" /\ hist[t].real.res = -1
    /\ ret[t] = 0 /\ ~crof[call[t].f].alloc

\* C6: the host's session-creation call works on the guest's copy of the
\* session descriptor, and after a GET_SESSION ioctl the caller's descriptor
\* holds the identifier that call assigned.
C6_SessionIdReturned ==
  \A t \in Threads :
    hist[t].real.name = "CIOCGSESSION" =>
      /\ hist[t].real.arg = Region("copied_session", t)
      /\ (pc[t] = "done" /\ hist[t].real.newses >= 0) => umem[t].ses = hist[t].real.newses

\* C7: a GET_SESSION request carries the key bytes as the guest-writable
\* region after the diagnostic message, and the key pointer the host hands
\* to the session-creation call refers to them.
C7_KeyTransmitted ==
  /\ \A e \in Elems :
       call[e.owner].cmd = "CIOCGSESSION" =>
         /\ Len(e.out) = 5
         /\ e.out[4] = Region("output_msg", e.owner)
         /\ e.out[5] = Region("session_key", e.owner)
  /\ \A t \in Threads :
       hist[t].real.name = "CIOCGSESSION" =>
         /\ hist[t].real.key = Region("session_key", t)
         /\ hist[t].real.keylen = umem[t].keylen

\* C8: the session identifier the host passes to the session-teardown call
\* is the one the caller supplied to FREE_SESSION.
C8_FreeSessionId ==
  \A t \in Threads :
    hist[t].real.name = "CIOCFSESSION" => hist[t].real.sesval = umem[t].ses

\* C9: a CRYPT request carries the crypt descriptor, the source and the IV
\* out and the destination in, and the host's crypt call works on them.
C9_CryptRegions ==
  /\ \A e \in Elems :
       call[e.owner].cmd = "CIOCCRYPT" =>
         /\ \A k \in {"copied_crypt", "crypto_src", "crypto_iv"} :
              \E i \in 1..Len(e.out) : e.out[i] = Region(k, e.owner)
         /\ \E i \in 1..Len(e.in) : e.in[i] = Region("crypto_dst", e.owner)
  /\ \A t \in Threads :
       hist[t].real.name = "CIOCCRYPT" => hist[t].real.arg = Region("copied_crypt", t)

\* C10: decrypting, with the same session and IV, the destination buffer an
\* encryption returned gives the caller the plaintext of that encryption.
C10_RoundTrip ==
  \A t \in Threads :
    (pc[t] = "done" /\ call[t].cmd = "CIOCCRYPT" /\ call[t].orig >= 0 /\ ret[t] = 0)
      => umem[t].dst = call[t].orig

\* The host serves thread t's request.
Served(t) == hist'[t].popped = hist[t].popped + 1

\* A step of thread t's call: t moves, or the host serves t's request.
StepOf(t) == pc'[t] # pc[t] \/ hist'[t] # hist[t]

Unknown(t) == call[t].kind = "ioctl" /\ call[t].cmd = "OTHER"

\* C11: an ioctl with an unknown command submits syscall_type, host_fd and
\* cmd out and nothing in; the host makes no real-device call and pushes the
\* set back; the ioctl returns 0 and no step of it changes a Context, the
\* host's handles or the host's sessions.
C11_UnknownCommand ==
  /\ [](\A t \in Threads : Unknown(t) =>
         /\ sgs[t].out = <<Region("syscall_type", t), Region("host_fd", call[t].f),
                           Region("cmd", t)>>
         /\ sgs[t].in = <<>>
         /\ \A e \in Elems : e.owner = t => e.out = sgs[t].out /\ e.in = sgs[t].in
         /\ hist[t].added <= 1
         /\ hist[t].real = NoReal
         /\ hist[t].pushed = hist[t].popped
         /\ ret[t] = 0
         /\ pc[t] \in {"unlock", "exit", "done"} => hist[t].pushed = 1)
  /\ [][\A t \in Threads :
         ((Unknown(t) \/ Unknown(t)') /\ StepOf(t))
           => UNCHANGED <<crof, host_fds, sessions, leaked, fstate>>]_vars

\* An unknown command has completed on a Context that holds a session.
C11_Witness ==
  \E t \in Threads :
    /\ Unknown(t) /\ Submitted(t) /\ hist[t].pushed = 1 /\ ret[t] = 0
    /\ crof[call[t].f].host_fd >= 0
    /\ \E s \in sessions : s[1] = crof[call[t].f].host_fd

CopyFaulted(t) ==
  /\ call[t].kind = "ioctl" /\ call[t].cmd = "CIOCGSESSION"
  /\ umem[t].fault = "sess" \/ (umem[t].fault = "key" /\ umem[t].keylen > 0)

\* C12: a GET_SESSION ioctl whose copy of the session descriptor or of the
\* key fails returns non-zero without taking the device lock and without
\* adding a descriptor set; no step of it changes the queue, the host's
\* handles and sessions or a Context.
C12_CopyFault ==
  /\ [](\A t \in Threads : CopyFaulted(t) =>
         /\ ret[t] # 0
         /\ pc[t] \in {"exit", "done"}
         /\ hist[t] = NoHist
         /\ \A d \in Registered : devlock[d] # t
         /\ \A e \in Elems : e.owner # t)
  /\ [][\A t \in Threads :
         ((CopyFaulted(t) \/ CopyFaulted(t)') /\ StepOf(t))
           => UNCHANGED <<avail, used, devlock, crof, host_fds, sessions, irq>>]_vars

\* The key copy of a GET_SESSION failed while another caller's request on
\* the same file was in the queue.
C12_Witness ==
  \E t, u \in Threads :
    /\ CopyFaulted(t) /\ umem[t].fault = "key" /\ pc[t] = "done" /\ ret[t] # 0
    /\ u # t /\ pc[u] = "poll" /\ call[u].f = call[t].f

\* C13: when a release is the request served next after the OPEN that
\* created its Context, the CLOSE closes the handle that OPEN returned, the
\* close succeeds, no other handle is closed and the host's handle table is
\* what it was before the OPEN; the release is served at most once.
C13_OpenClose ==
  /\ [](\A t \in Threads : call[t].kind = "release" =>
         hist[t].added <= 1 /\ hist[t].popped <= 1)
  /\ [][\A t \in Threads :
         (call[t].kind = "release" /\ prev[t].fd >= 0 /\ Served(t)) =>
           /\ prev[t].f = call[t].f
           /\ prev[t].fd \in host_fds
           /\ hist'[t].real.name = "close"
           /\ hist'[t].real.fd = prev[t].fd
           /\ hist'[t].real.res = 0
           /\ host_fds' = host_fds \ {prev[t].fd}
           /\ host_fds' = prev[t].fds]_vars

\* A release served right after its open has completed, while the other
\* file's Context holds a handle of its own.
C13_Witness ==
  \E t \in Threads :
    /\ Submitted(t) /\ call[t].kind = "release" /\ prev[t].fd >= 0
    /\ hist[t].real.fd = prev[t].fd /\ hist[t].real.res = 0
    /\ host_fds = prev[t].fds /\ host_fds # {}

\* C14: no two allocated Contexts hold the same non-negative host_fd, in
\* every reachable state, the window between the host's close and the
\* guest's kfree(crof) included.
C14_UniqueHandles ==
  \A f, g \in Files :
    (f # g /\ crof[f].alloc /\ crof[g].alloc /\ crof[f].host_fd >= 0)
      => crof[f].host_fd # crof[g].host_fd

Waiting(t) == pc[t] = "poll" /\ hist[t].added = 1 /\ hist[t].pushed = 0

\* C16: while the host has not pushed a caller's set back, the caller stays
\* in its poll loop holding the device lock, and no other caller adds a set
\* to that device's queue.
C16_NoTimeout ==
  /\ [](\A t \in Threads : Waiting(t) =>
         devlock[DevOf(t)] = t /\ used[DevOf(t)] = <<>>)
  /\ [][\A t \in Threads :
         (Waiting(t) /\ hist'[t].pushed = 0) =>
           /\ pc'[t] = "poll"
           /\ devlock'[DevOf(t)] = t
           /\ \A u \in Threads \ {t} :
                hist'[u].added > hist[u].added => DevOf(u) # DevOf(t)]_vars

\* The host will never serve a caller's request, and another caller waits
\* for the lock of the same device.
C16_Witness ==
  \E t, u \in Threads :
    /\ Waiting(t) /\ ~hostUp /\ avail[DevOf(t)] = <<>>
    /\ u # t /\ pc[u] = "lock" /\ DevOf(u) = DevOf(t)

\* C17: a dispatcher run that finds no descriptor set raises the
\* notification and changes nothing else: no real-device call, nothing
\* pushed, the handle table as it was.
C17_EmptyQueue ==
  [][(UNCHANGED pc /\ \A d \in Registered : avail[d] = <<>>) =>
       /\ \E d \in Registered : irq'[d] /\ ~irq[d]
       /\ UNCHANGED <<avail, used, host_fds, sessions, crof, hist, hostUp, leaked>>]_vars

\* The dispatcher has run before any call was made.
C17_Witness ==
  \E d \in Registered : irq[d] /\ ncalls = 0 /\ avail[d] = <<>> /\ used[d] = <<>>

\* C19: a failed open leaves nothing allocated: no Context, no request
\* buffer; an open on an unregistered minor adds nothing to the queue.
C19_FailedOpenFreesAll ==
  /\ leaked.crof = 0 /\ leaked.buf = 0
  /\ \A t \in Threads :
       (pc[t] = "done" /\ call[t].kind = "open" /\ ret[t] # 0) =>
         /\ ~crof[call[t].f].alloc
         /\ hist[t].real.name = "none" => hist[t].added = 0

\* C20: an ioctl that was submitted and completed returns 0 whatever the
\* host's real-device call returned; ioctl returns non-zero only after a
\* copy fault, with nothing submitted.
C20_IoctlResult ==
  \A t \in Threads :
    call[t].kind = "ioctl" =>
      /\ ret[t] # 0 => CopyFaulted(t) /\ hist[t].added = 0
      /\ (pc[t] = "done" /\ hist[t].pushed = 1) => ret[t] = 0

\* An ioctl has returned 0 although the host's real-device call failed.
C20_Witness ==
  \E t \in Threads :
    /\ Submitted(t) /\ call[t].kind = "ioctl" /\ hist[t].pushed = 1
    /\ hist[t].real.name # "none" /\ hist[t].real.res = -1 /\ ret[t] = 0

\* The array a thread's current call has built.
BuiltBy(t) ==
  CASE call[t].kind = "open"    -> Build(OpenOps(t, call[t].f), OpenSgsLen)
    [] call[t].kind = "release" -> Build(ReleaseOps(t, call[t].f), OpenSgsLen)
    [] OTHER -> Build(IoctlOps(t, call[t].f, call[t].cmd, umem[t]), IoctlSgsLen)

\* C18: in the array every call hands to the queue the guest-writable regions
\* fill slots 0..num_out-1 and the host-writable ones slots
\* num_out..num_out+num_in-1, each slot stored exactly once by a store of its
\* own direction, and the queue receives exactly those regions.
C18_OutBeforeIn ==
  \A t \in Threads :
    (call[t].kind # "none" /\ sgs[t] # NoSgs) =>
      LET b == BuiltBy(t) IN
        /\ b.num_out + b.num_in <= Len(b.arr)
        /\ \A i \in DOMAIN b.arr :
             /\ i <= b.num_out => b.arr[i].n = 1 /\ b.arr[i].dir = "out"
             /\ (b.num_out < i /\ i <= b.num_out + b.num_in)
                  => b.arr[i].n = 1 /\ b.arr[i].dir = "in"
             /\ i > b.num_out + b.num_in => b.arr[i].n = 0
        /\ sgs[t] = AddSgs(b)
        /\ \A e \in Elems : e.owner = t => e.out = sgs[t].out /\ e.in = sgs[t].in

\* Requests of all six shapes have been built: here a GET_SESSION with both
\* host-writable regions is in the queue.
C18_Witness ==
  \E e \in Elems :
    /\ call[e.owner].cmd = "CIOCGSESSION"
    /\ Len(e.out) = 4 /\ Len(e.in) = 2
    /\ e.in[2] = Region("copied_session", e.owner)

\* ---------------------------------------------------------- specification
Next ==
  \/ \E t \in Threads, f \in Files, minor \in Minors : OpenEnter(t, f, minor)
  \/ \E t \in Threads, f \in Files : ReleaseEnter(t, f)
  \/ \E t \in Threads, f \in Files, cmd \in Cmds :
       \E arg \in UserArgs(cmd) : IoctlEnter(t, f, cmd, arg)
  \/ \E t \in Threads : Lock(t)
  \/ \E t \in Threads : AddKick(t)
  \/ \E t \in Threads : Poll(t)
  \/ \E t \in Threads : Unlock(t)
  \/ \E t \in Threads : OpenExit(t)
  \/ \E t \in Threads : ReleaseExit(t)
  \/ \E t \in Threads : IoctlExit(t)
  \/ \E t \in Threads : Return(t)
  \/ \E d \in Registered : vq_handle_output(d)

Spec == Init /\ [][Next]_vars

SpecData == InitData /\ [][Next]_vars

\* The scheduling the liveness of a call rests on: the dispatcher runs while
\* it can, a thread inside a call keeps running, and the spinlock is granted
\* to a waiter that finds it free again and again.  Callers need not call.
Fairness ==
  /\ \A d \in Registered : WF_vars(vq_handle_output(d))
  /\ \A t \in Threads :
       /\ SF_vars(Lock(t))
       /\ WF_vars(AddKick(t) \/ Poll(t) \/ Unlock(t) \/ OpenExit(t) \/ ReleaseExit(t)
                    \/ IoctlExit(t) \/ Return(t))

SpecLive == Init /\ [][Next]_vars /\ Fairness

====
